---- MODULE Spec2Model ----
(***************************************************************************)
(* The WebSocketConnection durable object of src/workers/socket.ts: the    *)
(* session registry (activeConnections), the room membership index         *)
(* (roomParticipants), its persisted snapshot (storage key 'rooms'), the   *)
(* broadcast endpoint with its zod validation, and the stale-connection    *)
(* reaper.  Every handler is one action: the durable object delivers one   *)
(* event at a time and its storage reads and writes hold the input gate.   *)
(*                                                                         *)
(*   Spec           the handlers, one event at a time, restarts included   *)
(*   NoRestartSpec  the same during one life of the object                 *)
(*   FaultSpec      the same, and broadcasts during which a send throws    *)
(*   ReaperSpec     one life of the object with the reaper run fairly      *)
(*   StorageFaultSpec  the same, and reaper cycles whose write rejects     *)
(*   LoadSpec       initialize split at its await of storage.get           *)
(*   ClientSpec     the client's WebSocketManager of                       *)
(*                  src/lib/websocket/types.ts and its sockets             *)
(*   AwaitSpec      handleBroadcast split at the awaits of its room loop,  *)
(*                  with the events socket.ts itself does not keep out     *)
(*   DecodeSpec     decode of src/lib/jwt.ts applied to a token at a time  *)
(***************************************************************************)
EXTENDS Integers, Sequences, FiniteSets, TLC

(* ---------------------------- bounds ----------------------------------- *)

MaxSessions == 2

\* times, in seconds: exp and Math.floor(Date.now() / 1000) are drawn up to it
MaxTime == 3

(* ------------------------- JSON values --------------------------------- *)

JNum(n) == [num |-> n]
JStr(s) == [str |-> s]
JBool(b) == [bool |-> b]
JNull == [null |-> TRUE]
JArr(a) == [arr |-> a]
JObj(o) == [obj |-> o]

IsNum(v) == DOMAIN v = {"num"}
IsStr(v) == DOMAIN v = {"str"}
IsBool(v) == DOMAIN v = {"bool"}
IsNull(v) == DOMAIN v = {"null"}
IsArr(v) == DOMAIN v = {"arr"}
IsObj(v) == DOMAIN v = {"obj"}

IsNumArr(v) == IsArr(v) /\ \A i \in DOMAIN v.arr : IsNum(v.arr[i])
IsStrArr(v) == IsArr(v) /\ \A i \in DOMAIN v.arr : IsStr(v.arr[i])
IsEnum(v, names) == IsStr(v) /\ v.str \in names

\* JavaScript String(x) of a string or a number
String(v) == IF IsNum(v) THEN ToString(v.num) ELSE v.str

\* JavaScript truthiness of a string, a number or null (the !roomId test)
Truthy(v) ==
  IF IsNum(v) THEN v.num # 0
  ELSE IF IsStr(v) THEN v.str # ""
  ELSE IF IsBool(v) THEN v.bool
  ELSE ~IsNull(v)

Has(o, k) == k \in DOMAIN o
Strip(o, keys) == [k \in DOMAIN o \cap keys |-> o[k]]
NullOrNum(v) == IsNull(v) \/ IsNum(v)
NullOrStr(v) == IsNull(v) \/ IsStr(v)

(* ------------------------- WS_EVENTS ----------------------------------- *)

ROOM_JOIN == "room:join"
ROOM_LEAVE == "room:leave"
CHAT_MESSAGE == "chat:message"
NOTIFICATIONS_READ == "notifications:read"
POINTS_AWARDED == "points:awarded"
NOTIFICATION_CREATED == "notification:created"
NOTIFICATION_DELETED == "notification:deleted"
NOTIFICATION_CLEARED == "notification:cleared"

(* --------------------- BroadcastMessageSchema -------------------------- *)

EligibilityStatus == {"pending", "eligible", "not_eligible", "points_awarded", "expired"}

MessageKeys ==
  {"id", "conversation_id", "user_id", "content", "is_ai", "sender_name",
   "created_at", "eligibility_status", "eligibility_reasons",
   "heart_points_received", "heart_points_awarded_at", "heart_points_awarded_by"}

MessageObjectSchema(v) ==
  /\ IsObj(v)
  /\ MessageKeys \subseteq DOMAIN v.obj
  /\ IsNum(v.obj.id)
  /\ IsNum(v.obj.conversation_id)
  /\ NullOrNum(v.obj.user_id)
  /\ IsStr(v.obj.content)
  /\ (IsBool(v.obj.is_ai) \/ IsNum(v.obj.is_ai))
  /\ NullOrStr(v.obj.sender_name)
  /\ IsStr(v.obj.created_at)
  /\ IsEnum(v.obj.eligibility_status, EligibilityStatus)
  /\ (IsStr(v.obj.eligibility_reasons) \/ IsStrArr(v.obj.eligibility_reasons))
  /\ IsNum(v.obj.heart_points_received)
  /\ NullOrStr(v.obj.heart_points_awarded_at)
  /\ NullOrNum(v.obj.heart_points_awarded_by)

ChatMessageKeys == {"roomId", "message"}
ChatMessageSchema(p) ==
  /\ ChatMessageKeys \subseteq DOMAIN p
  /\ (IsStr(p.roomId) \/ IsNum(p.roomId))
  /\ MessageObjectSchema(p.message)

NotificationCreatedKeys ==
  {"id", "userId", "type", "title", "content", "link", "isRead", "createdAt", "metadata"}
NotificationCreatedSchema(p) ==
  /\ (NotificationCreatedKeys \ {"link"}) \subseteq DOMAIN p
  /\ IsNum(p.id)
  /\ IsNum(p.userId)
  /\ IsEnum(p.type, {"chat_message", "announcement"})
  /\ IsStr(p.title)
  /\ IsStr(p.content)
  /\ (Has(p, "link") => NullOrStr(p.link))
  /\ IsBool(p.isRead)
  /\ IsStr(p.createdAt)
  /\ IsObj(p.metadata)

NotificationDeletedKeys == {"notificationId", "chatId"}
NotificationDeletedSchema(p) ==
  /\ Has(p, "notificationId")
  /\ IsNum(p.notificationId)
  /\ (Has(p, "chatId") => IsNum(p.chatId))

NotificationsClearedKeys == {"chatIds"}
NotificationsClearedSchema(p) ==
  /\ Has(p, "chatIds")
  /\ IsNumArr(p.chatIds)

\* z.union: the first option that matches, with the keys it does not know stripped
PayloadUnion(p) ==
  IF ChatMessageSchema(p) THEN [success |-> TRUE, data |-> Strip(p, ChatMessageKeys)]
  ELSE IF NotificationCreatedSchema(p)
    THEN [success |-> TRUE, data |-> Strip(p, NotificationCreatedKeys)]
  ELSE IF NotificationDeletedSchema(p)
    THEN [success |-> TRUE, data |-> Strip(p, NotificationDeletedKeys)]
  ELSE IF NotificationsClearedSchema(p)
    THEN [success |-> TRUE, data |-> Strip(p, NotificationsClearedKeys)]
  ELSE [success |-> FALSE, data |-> <<>>]

\* BroadcastMessageSchema.parse: type is any string, payload is the union
BroadcastMessageSchema(raw) ==
  IF Has(raw, "type") /\ IsStr(raw.type) /\ Has(raw, "payload")
     /\ PayloadUnion(raw.payload).success
  THEN [success |-> TRUE,
        data |-> [type |-> raw.type, payload |-> PayloadUnion(raw.payload).data]]
  ELSE [success |-> FALSE, data |-> <<>>]

(* ------------------------------ state ---------------------------------- *)

VARIABLES
  activeConnections,  \* sessionId -> [rooms |-> set of room keys]  (the Registry)
  roomParticipants,   \* room key -> sequence of sessionIds, in insertion order
  storage,            \* the persisted 'rooms' record: room key -> sequence of ids
  initialized,        \* the snapshot has been loaded by this instance
  sockets,            \* sessionId -> readyState of the sockets of this instance
  nextId,             \* the next crypto.randomUUID(), never reused
  everJoined,         \* history: the room keys of the joins handled so far
  removed,            \* history: the sessionIds handleSessionClose has removed
  last,               \* history: the request handled last and its response
  tasks,              \* the broadcasts issued, each with the place its loop waits at
  inbox,              \* sessionId -> the broadcasts sent on its socket, in order
  verified,           \* the token decode was applied to, the time, and its outcome
  loading,            \* the storage.get calls of initialize that have not resolved
  manager,            \* the fields of the client's WebSocketManager
  browser,            \* the client's WebSocket objects and reconnect timers
  calls               \* history: what was asked of the WebSocketManager, what it sent

vars == <<activeConnections, roomParticipants, storage, initialized, sockets,
          nextId, everJoined, removed, last, tasks, inbox, verified, loading,
          manager, browser, calls>>

\* the client of src/lib/websocket/types.ts
client == <<manager, browser, calls>>

\* what the handlers taken one event at a time leave alone
aside == <<tasks, inbox, verified, loading, client>>

SessionIds == 1..MaxSessions

\* the coordinator's own fields, as the handlers read and write them
Coordinator ==
  [activeConnections |-> activeConnections,
   roomParticipants |-> roomParticipants,
   storage |-> storage,
   initialized |-> initialized]

(* ----------------------------- helpers --------------------------------- *)

Range(q) == {q[i] : i \in DOMAIN q}

\* Set.prototype.delete on an insertion-ordered set
SetDelete(q, x) == SelectSeq(q, LAMBDA y : y # x)

SetAddAgain(q, x) == Append(q, x)

\* Set.prototype.add on an insertion-ordered set
SetAdd(q, x) == IF x \in Range(q) THEN q ELSE Append(q, x)

\* Map.prototype.delete
MapDelete(m, k) == [x \in DOMAIN m \ {k} |-> m[x]]

\* Map.prototype.set
MapSet(m, k, v) == [x \in DOMAIN m \cup {k} |-> IF x = k THEN v ELSE m[x]]

\* the keys of activeConnections in insertion order: ids are handed out in order
RECURSIVE InsertionOrder(_)
InsertionOrder(S) ==
  IF S = {} THEN <<>>
  ELSE LET m == CHOOSE x \in S : \A y \in S : x <= y
       IN <<m>> \o InsertionOrder(S \ {m})

WebSocketRegistered(sid) == sid \in DOMAIN sockets

WebSocketOPEN(sid) == sid \in DOMAIN sockets /\ sockets[sid] = "OPEN"

(* --------------------- saveState and initialize ------------------------ *)

saveState(c) == [c EXCEPT !.storage = c.roomParticipants]

initialize(c) ==
  IF c.initialized THEN c
  ELSE [c EXCEPT
         !.roomParticipants =
            [r \in DOMAIN c.roomParticipants \cup DOMAIN c.storage |->
               IF r \in DOMAIN c.storage THEN c.storage[r] ELSE c.roomParticipants[r]],
         !.initialized = TRUE]

(* ------------------ join, leave and session close ---------------------- *)

handleRoomJoin(c, sid, roomId) ==
  LET roomKey == String(roomId)
      session == [c.activeConnections[sid] EXCEPT !.rooms = @ \cup {roomKey}]
      created == IF roomKey \in DOMAIN c.roomParticipants
                 THEN c.roomParticipants
                 ELSE MapSet(c.roomParticipants, roomKey, <<>>)
  IN saveState([c EXCEPT
       !.activeConnections = MapSet(@, sid, session),
       !.roomParticipants = MapSet(created, roomKey, SetAdd(created[roomKey], sid))])

handleRoomLeaveSessionOnly(c, sid, roomId) ==
  LET roomKey == String(roomId)
      session == [c.activeConnections[sid] EXCEPT !.rooms = @ \ {roomKey}]
  IN saveState([c EXCEPT !.activeConnections = MapSet(@, sid, session)])

handleRoomLeave(c, sid, roomId) ==
  LET roomKey == String(roomId)
      session == [c.activeConnections[sid] EXCEPT !.rooms = @ \ {roomKey}]
  IN saveState([c EXCEPT
       !.activeConnections = MapSet(@, sid, session),
       !.roomParticipants =
          IF roomKey \in DOMAIN @
          THEN MapSet(@, roomKey, SetDelete(@[roomKey], sid))
          ELSE @])

RemoveFromRoomsKeepEmpty(index, rooms, sid) ==
  [r \in DOMAIN index |-> IF r \in rooms THEN SetDelete(index[r], sid) ELSE index[r]]

\* the body of the loop over session.rooms: drop the id, drop the room if empty
RemoveFromRooms(index, rooms, sid) ==
  LET dropped == [r \in DOMAIN index |->
                    IF r \in rooms THEN SetDelete(index[r], sid) ELSE index[r]]
      kept == {r \in DOMAIN index : ~(r \in rooms /\ dropped[r] = <<>>)}
  IN [r \in kept |-> dropped[r]]

handleSessionCloseRegistryOnly(c, sid) ==
  IF sid \notin DOMAIN c.activeConnections THEN c
  ELSE saveState([c EXCEPT !.activeConnections = MapDelete(@, sid)])

handleSessionClose(c, sid) ==
  IF sid \notin DOMAIN c.activeConnections THEN c
  ELSE saveState([c EXCEPT
         !.roomParticipants =
            RemoveFromRooms(@, c.activeConnections[sid].rooms, sid),
         !.activeConnections = MapDelete(@, sid)])

RECURSIVE CleanupLoop(_, _)
CleanupLoop(c, todo) ==
  IF todo = <<>> THEN c
  ELSE IF ~WebSocketOPEN(Head(todo))
    THEN CleanupLoop(handleSessionClose(c, Head(todo)), Tail(todo))
    ELSE CleanupLoop(c, Tail(todo))

\* handleSessionClose when its storage.put rejects: the session is out of the
\* rooms and the Registry, the snapshot stays, the rejection goes to the caller
handleSessionCloseNotSaved(c, sid) ==
  [c EXCEPT
     !.roomParticipants = RemoveFromRooms(@, c.activeConnections[sid].rooms, sid),
     !.activeConnections = MapDelete(@, sid)]

\* the loop of cleanupStaleConnections when the snapshot write rejects for the
\* sessions of fails: `await this.handleSessionClose` rejects and ends the loop
RECURSIVE CleanupLoopFailing(_, _, _)
CleanupLoopFailing(c, todo, fails) ==
  IF todo = <<>> THEN c
  ELSE IF WebSocketOPEN(Head(todo)) THEN CleanupLoopFailing(c, Tail(todo), fails)
  ELSE IF Head(todo) \in fails THEN handleSessionCloseNotSaved(c, Head(todo))
  ELSE CleanupLoopFailing(handleSessionClose(c, Head(todo)), Tail(todo), fails)

cleanupFirstConnection(c) ==
  IF c.activeConnections = <<>> THEN c
  ELSE CleanupLoop(c, SubSeq(InsertionOrder(DOMAIN c.activeConnections), 1, 1))

cleanupStaleConnections(c) ==
  CleanupLoop(c, InsertionOrder(DOMAIN c.activeConnections))

(* --------------------------- handleBroadcast --------------------------- *)

Response(c, status, recipients, sent) ==
  [c |-> c, status |-> status, recipients |-> recipients, sent |-> sent]

IsGlobalDeletedOnly(type) == type = NOTIFICATION_DELETED

IsGlobal(type) == type = NOTIFICATION_DELETED \/ type = NOTIFICATION_CLEARED

\* a send that throws leaves the loop for the catch of handleBroadcast: 500
\* 'Internal server error', whatever was sent before stays sent
Caught(c, sent) == Response(c, 500, 0, sent)

\* the loop over activeConnections of the notification events; throws holds the
\* sessions whose socket.send throws
RECURSIVE GlobalLoop(_, _, _, _)
GlobalLoop(c, todo, sent, throws) ==
  IF todo = <<>> THEN Response(c, 200, Len(sent), sent)
  ELSE IF WebSocketOPEN(Head(todo))
    THEN IF Head(todo) \in throws THEN Caught(c, sent)
         ELSE GlobalLoop(c, Tail(todo), Append(sent, Head(todo)), throws)
    ELSE GlobalLoop(handleSessionClose(c, Head(todo)), Tail(todo), sent, throws)

\* roomSessions.delete(sessionId) on the set the loop walks
LazyDelete(c, roomKey, sid) ==
  IF roomKey \in DOMAIN c.roomParticipants
  THEN [c EXCEPT !.roomParticipants[roomKey] = SetDelete(@, sid)]
  ELSE c

\* the loop over roomSessions, then saveState
RECURSIVE RoomLoop(_, _, _, _, _)
RoomLoop(c, roomKey, todo, sent, throws) ==
  IF todo = <<>> THEN Response(saveState(c), 200, Len(sent), sent)
  ELSE IF Head(todo) \notin DOMAIN c.activeConnections
    THEN RoomLoop(LazyDelete(c, roomKey, Head(todo)), roomKey, Tail(todo), sent, throws)
  ELSE IF WebSocketOPEN(Head(todo))
    THEN IF Head(todo) \in throws THEN Caught(c, sent)
         ELSE RoomLoop(c, roomKey, Tail(todo), Append(sent, Head(todo)), throws)
  ELSE RoomLoop(handleSessionClose(c, Head(todo)), roomKey, Tail(todo), sent, throws)

\* const { roomId } = 'roomId' in payload ? payload : { roomId: null }
RoomIdOf(payload) == IF Has(payload, "roomId") THEN payload.roomId ELSE JNull

RoomNotFoundOrEmpty(c, roomKey) ==
  roomKey \notin DOMAIN c.roomParticipants \/ c.roomParticipants[roomKey] = <<>>

RoomNotFound(c, roomKey) == roomKey \notin DOMAIN c.roomParticipants

MissingRoomId(roomId) == ~Truthy(roomId)

RoomBroadcastToAll(c, payload, throws) ==
  LET roomId == RoomIdOf(payload)
  IN IF MissingRoomId(roomId) THEN Response(c, 400, 0, <<>>)
     ELSE IF RoomNotFound(c, String(roomId)) THEN Response(c, 404, 0, <<>>)
     ELSE GlobalLoop(c, InsertionOrder(DOMAIN c.activeConnections), <<>>, throws)

RoomBroadcast(c, payload, throws) ==
  LET roomId == RoomIdOf(payload)
  IN IF MissingRoomId(roomId) THEN Response(c, 400, 0, <<>>)
     ELSE IF RoomNotFound(c, String(roomId)) THEN Response(c, 404, 0, <<>>)
     ELSE RoomLoop(c, String(roomId), c.roomParticipants[String(roomId)], <<>>, throws)

handleBroadcast(c0, method, raw, throws) ==
  LET c == initialize(c0)
      validated == BroadcastMessageSchema(raw)
  IN IF method # "POST" THEN Response(c, 405, 0, <<>>)
     ELSE IF ~validated.success THEN Response(c, 500, 0, <<>>)
     ELSE IF IsGlobal(validated.data.type.str)
       THEN GlobalLoop(c, InsertionOrder(DOMAIN c.activeConnections), <<>>, throws)
     ELSE RoomBroadcast(c, validated.data.payload, throws)

(* ------------------------- handleMessage ------------------------------- *)

handleMessageNoLookup(c, sid, frame) ==
  LET known == IF sid \in DOMAIN c.activeConnections THEN c
               ELSE [c EXCEPT !.activeConnections = MapSet(@, sid, [rooms |-> {}])]
  IN IF ~frame.json THEN c
     ELSE IF frame.type = ROOM_JOIN THEN handleRoomJoin(known, sid, frame.payload.roomId)
     ELSE IF frame.type = ROOM_LEAVE THEN handleRoomLeave(known, sid, frame.payload.roomId)
     ELSE c

handleMessageClosesOnError(c, sid, frame) ==
  IF ~frame.json THEN handleSessionClose(c, sid)
  ELSE IF sid \notin DOMAIN c.activeConnections THEN c
  ELSE IF frame.type = ROOM_JOIN THEN handleRoomJoin(c, sid, frame.payload.roomId)
  ELSE IF frame.type = ROOM_LEAVE THEN handleRoomLeave(c, sid, frame.payload.roomId)
  ELSE handleSessionClose(c, sid)

\* the message listener: JSON.parse, then the switch of handleMessage
handleMessage(c, sid, frame) ==
  IF ~frame.json THEN c
  ELSE IF sid \notin DOMAIN c.activeConnections THEN c
  ELSE IF frame.type = ROOM_JOIN THEN handleRoomJoin(c, sid, frame.payload.roomId)
  ELSE IF frame.type = ROOM_LEAVE THEN handleRoomLeave(c, sid, frame.payload.roomId)
  ELSE c

Joins(c, sid, frame) ==
  frame.json /\ sid \in DOMAIN c.activeConnections /\ frame.type = ROOM_JOIN

Leaves(c, sid, frame) ==
  frame.json /\ sid \in DOMAIN c.activeConnections /\ frame.type = ROOM_LEAVE

(* ---------------------------- decode ----------------------------------- *)

\* a token: the number of its segments, the alg of its header, its payload, and
\* whether its signature is the HMAC of its first two segments under JWT_SECRET
Token(segments, alg, payload, signed) ==
  [segments |-> segments, alg |-> alg, payload |-> payload, signed |-> signed]

\* the token parameter is absent or empty
NoToken == [segments |-> 0]

\* payloadSchema.parse: sub is a string, exp is a number when it is there
payloadSchema(p) ==
  /\ Has(p, "sub")
  /\ IsStr(p.sub)
  /\ (Has(p, "exp") => IsNum(p.exp))

Thrown(message) == [ok |-> FALSE, error |-> message]

\* if (validatedPayload.exp && validatedPayload.exp < Math.floor(Date.now() / 1000))
Expired(p, now) == Has(p, "exp") /\ Truthy(p.exp) /\ p.exp.num < now

\* decode(token, secret) at time now, check by check in the order of the code
decode(token, now) ==
  IF token = NoToken THEN Thrown("No token provided")
  ELSE IF token.segments # 3 THEN Thrown("Invalid token format")
  ELSE IF token.alg # "HS256" THEN Thrown("Invalid token algorithm")
  ELSE IF ~payloadSchema(token.payload) THEN Thrown("Invalid payload")
  ELSE IF ~token.signed THEN Thrown("Invalid signature")
  ELSE IF Expired(token.payload, now) THEN Thrown("Token has expired")
  ELSE [ok |-> TRUE, error |-> ""]

Subject == JStr("user-1")

\* the tokens presented to the upgrade, by name
WireToken(name) ==
  IF name = "malformed" THEN Token(2, "HS256", [sub |-> Subject], FALSE)
  ELSE IF name = "forged" THEN Token(3, "HS256", [sub |-> Subject, exp |-> JNum(MaxTime)], FALSE)
  ELSE IF name = "expired" THEN Token(3, "HS256", [sub |-> Subject, exp |-> JNum(1)], TRUE)
  ELSE IF name = "valid" THEN Token(3, "HS256", [sub |-> Subject, exp |-> JNum(MaxTime)], TRUE)
  ELSE NoToken

\* the upgrades are taken at time MaxTime
DecodeThrows(token) == ~decode(WireToken(token), MaxTime).ok

(* ------------------------------ inputs --------------------------------- *)

ValidMessage ==
  JObj([id |-> JNum(1), conversation_id |-> JNum(1), user_id |-> JNum(1),
        content |-> JStr("hi"), is_ai |-> JBool(FALSE), sender_name |-> JNull,
        created_at |-> JStr("2024-01-01T00:00:00Z"),
        eligibility_status |-> JStr("pending"), eligibility_reasons |-> JArr(<<>>),
        heart_points_received |-> JNum(0), heart_points_awarded_at |-> JNull,
        heart_points_awarded_by |-> JNull])

ChatPayload(roomId) == [roomId |-> roomId, message |-> ValidMessage]

CreatedPayload ==
  [id |-> JNum(1), userId |-> JNum(1), type |-> JStr("chat_message"),
   title |-> JStr("t"), content |-> JStr("c"), link |-> JNull,
   isRead |-> JBool(FALSE), createdAt |-> JStr("2024-01-01T00:00:00Z"),
   metadata |-> JObj(<<>>)]

DeletedPayload == [notificationId |-> JNum(1), chatId |-> JNum(1)]
ClearedPayload == [chatIds |-> JArr(<<JNum(1)>>)]
ReadPayload == [chatId |-> JNum(1)]
PointsPayload ==
  [messageId |-> JNum(1), points |-> JNum(1), type |-> JStr("HP"),
   awardedBy |-> JStr("Unknown User"), awardedAt |-> JStr("2024-01-01T00:00:00Z")]
DeletedIdsPayload == [notificationIds |-> JArr(<<JNum(1)>>)]
EmptyPayload == <<>>

JoinRoomIds == {JStr("0"), JNum(1)}
LeaveRoomIds == {JStr("0"), JStr("1")}
BroadcastRoomIds == {JNum(0), JStr("0"), JNum(1), JStr("1"), JStr("")}

KnownTags ==
  {CHAT_MESSAGE, NOTIFICATIONS_READ, POINTS_AWARDED, NOTIFICATION_CREATED,
   NOTIFICATION_DELETED, NOTIFICATION_CLEARED}
UnknownTag == "not:a:real:tag"

Envelope(type, payload) == [type |-> JStr(type), payload |-> payload]

\* the wire shapes of WebSocketEventMap, each under its own tag
WireEnvelopes ==
  {Envelope(CHAT_MESSAGE, ChatPayload(r)) : r \in BroadcastRoomIds}
    \cup {Envelope(NOTIFICATION_CREATED, CreatedPayload),
          Envelope(NOTIFICATION_DELETED, DeletedPayload),
          Envelope(NOTIFICATION_CLEARED, ClearedPayload),
          Envelope(NOTIFICATIONS_READ, ReadPayload),
          Envelope(POINTS_AWARDED, PointsPayload)}

\* the other bodies posted to /broadcast
OtherEnvelopes ==
  {Envelope(NOTIFICATION_DELETED, DeletedIdsPayload),
   Envelope(NOTIFICATION_CLEARED, ChatPayload(JStr("1"))),
   Envelope(CHAT_MESSAGE, ClearedPayload),
   Envelope(UnknownTag, EmptyPayload),
   Envelope(UnknownTag, ChatPayload(JStr("1"))),
   [payload |-> ClearedPayload]}

Envelopes == WireEnvelopes \cup OtherEnvelopes

\* the broadcasts during which the send on one session's socket throws
ThrowingEnvelopes ==
  {Envelope(CHAT_MESSAGE, ChatPayload(JNum(1))),
   Envelope(NOTIFICATION_CLEARED, ClearedPayload)}

\* socket.send on an OPEN socket returns
BroadcastRequests ==
  {<<"POST", raw, {}>> : raw \in Envelopes}
    \cup {<<"GET", Envelope(CHAT_MESSAGE, ChatPayload(JStr("1"))), {}>>}

\* socket.send on the OPEN socket of session sid throws
ThrowingRequests ==
  {<<"POST", raw, {sid}>> : raw \in ThrowingEnvelopes, sid \in SessionIds}

NotJson == [json |-> FALSE]
Frame(type, roomId) == [json |-> TRUE, type |-> type, payload |-> [roomId |-> roomId]]
Frames ==
  {NotJson, Frame("ping", JStr("0"))}
    \cup {Frame(ROOM_JOIN, r) : r \in JoinRoomIds}
    \cup {Frame(ROOM_LEAVE, r) : r \in LeaveRoomIds}

Tokens == {"missing", "malformed", "forged", "expired", "valid"}

(* ------------------------------ actions -------------------------------- *)

Commit(c) ==
  /\ activeConnections' = c.activeConnections
  /\ roomParticipants' = c.roomParticipants
  /\ storage' = c.storage
  /\ initialized' = c.initialized
  /\ removed' = removed \cup (DOMAIN activeConnections \ DOMAIN c.activeConnections)

Request(op, sid, method, raw, res) ==
  [op |-> op, sid |-> sid, method |-> method, raw |-> raw, status |-> res.status,
   recipients |-> res.recipients, sent |-> res.sent, throws |-> {},
   readyState |-> IF sid \in DOMAIN sockets THEN sockets[sid] ELSE "",
   pre |-> Coordinator]

NoResponse == [status |-> 0, recipients |-> 0, sent |-> <<>>]

\* no initialize has been called; applied counts, as history, the snapshots this
\* instance has applied to roomParticipants
NoLoads == [pending |-> <<>>, applied |-> 0]

\* the fields of a WebSocketManager after its constructor; socket 0 is null, the
\* Set rooms is the sequence of its RoomSubscriptions in insertion order
WebSocketManager ==
  [socket |-> 0, state |-> "disconnected", reconnectAttempts |-> 0,
   messageQueue |-> <<>>, rooms |-> <<>>, activeRooms |-> {}]

\* no WebSocket has been constructed, no setTimeout is pending
NoSockets == [sockets |-> <<>>, timers |-> 0]

\* nothing has been asked of the WebSocketManager
NoCalls ==
  [op |-> "none", room |-> "", connected |-> FALSE, rejoin |-> FALSE, sent |-> <<>>,
   joined |-> {}, left |-> {}, disconnected |-> FALSE, attempts |-> 0,
   submitted |-> 0, pending |-> <<>>, due |-> <<>>]

Init ==
  /\ activeConnections = <<>>
  /\ roomParticipants = <<>>
  /\ storage = <<>>
  /\ initialized = FALSE
  /\ sockets = <<>>
  /\ nextId = 1
  /\ everJoined = {}
  /\ removed = {}
  /\ last = Request("none", 0, "", <<>>, NoResponse)
  /\ tasks = <<>>
  /\ inbox = <<>>
  /\ loading = NoLoads
  /\ manager = WebSocketManager
  /\ browser = NoSockets
  /\ calls = NoCalls
  /\ verified = <<>>

\* fetch, Upgrade: websocket, no token in the URL
UpgradeWithoutToken ==
  /\ last' = Request("connect", 0, "missing", <<>>, [NoResponse EXCEPT !.status = 401])
  /\ UNCHANGED <<activeConnections, roomParticipants, storage, initialized, sockets,
                 nextId, everJoined, removed, aside>>

\* fetch -> handleSession, decode throws: the socket is closed and fetch rejects
UpgradeRejected(token) ==
  /\ token # "missing"
  /\ DecodeThrows(token)
  /\ Commit(initialize(Coordinator))
  /\ last' = Request("connect", 0, token, <<>>, [NoResponse EXCEPT !.status = 500])
  /\ UNCHANGED <<sockets, nextId, everJoined, aside>>

\* fetch -> handleSession, the session is registered and the socket accepted
UpgradeAccepted(token) ==
  /\ token # "missing"
  /\ ~DecodeThrows(token)
  /\ nextId <= MaxSessions
  /\ LET c == initialize(Coordinator)
     IN Commit([c EXCEPT !.activeConnections = MapSet(@, nextId, [rooms |-> {}])])
  /\ sockets' = MapSet(sockets, nextId, "OPEN")
  /\ nextId' = nextId + 1
  /\ last' = Request("connect", nextId, token, <<>>, [NoResponse EXCEPT !.status = 101])
  /\ UNCHANGED <<everJoined, aside>>

\* a frame of a socket of this instance whose close event has not been delivered
MessageEvent(sid, frame) ==
  /\ sid \in DOMAIN sockets
  /\ sockets[sid] # "CLOSED"
  /\ Commit(handleMessage(Coordinator, sid, frame))
  /\ everJoined' = IF Joins(Coordinator, sid, frame)
                   THEN everJoined \cup {String(frame.payload.roomId)}
                   ELSE everJoined
  /\ last' = Request("message", sid, "", frame, NoResponse)
  /\ UNCHANGED <<sockets, nextId, aside>>

\* the connection goes away: readyState is no longer OPEN, the close event is queued
SocketCloses(sid) ==
  /\ sid \in DOMAIN sockets
  /\ sockets[sid] = "OPEN"
  /\ sockets' = [sockets EXCEPT ![sid] = "CLOSING"]
  /\ last' = Request("socket", sid, "", <<>>, NoResponse)
  /\ UNCHANGED <<activeConnections, roomParticipants, storage, initialized, nextId,
                 everJoined, removed, aside>>

\* the close listener
CloseEvent(sid) ==
  /\ sid \in DOMAIN sockets
  /\ sockets[sid] = "CLOSING"
  /\ sockets' = [sockets EXCEPT ![sid] = "CLOSED"]
  /\ Commit(handleSessionClose(Coordinator, sid))
  /\ last' = Request("close", sid, "", <<>>, NoResponse)
  /\ UNCHANGED <<nextId, everJoined, aside>>

\* the setInterval callback
Reaper ==
  /\ Commit(cleanupStaleConnections(Coordinator))
  /\ last' = Request("reaper", 0, "", <<>>, NoResponse)
  /\ UNCHANGED <<sockets, nextId, everJoined, aside>>

\* fetch, /broadcast
Broadcast(method, raw, throws) ==
  LET res == handleBroadcast(Coordinator, method, raw, throws)
  IN /\ Commit(res.c)
     /\ last' = [Request("broadcast", 0, method, raw, res) EXCEPT !.throws = throws]
     /\ UNCHANGED <<sockets, nextId, everJoined, aside>>

\* the durable object is evicted and constructed again: only storage survives
Restart ==
  /\ activeConnections' = <<>>
  /\ roomParticipants' = <<>>
  /\ initialized' = FALSE
  /\ sockets' = <<>>
  /\ last' = Request("restart", 0, "", <<>>, NoResponse)
  /\ UNCHANGED <<storage, nextId, everJoined, removed, aside>>

Next ==
  \/ UpgradeWithoutToken
  \/ \E token \in Tokens : UpgradeRejected(token)
  \/ \E token \in Tokens : UpgradeAccepted(token)
  \/ \E sid \in SessionIds, frame \in Frames : MessageEvent(sid, frame)
  \/ \E sid \in SessionIds : SocketCloses(sid)
  \/ \E sid \in SessionIds : CloseEvent(sid)
  \/ Reaper
  \/ \E req \in BroadcastRequests : Broadcast(req[1], req[2], req[3])
  \/ Restart

Spec == Init /\ [][Next]_vars

\* one life of the durable object: the same handlers, no restart
NoRestartNext ==
  \/ UpgradeWithoutToken
  \/ \E token \in Tokens : UpgradeRejected(token)
  \/ \E token \in Tokens : UpgradeAccepted(token)
  \/ \E sid \in SessionIds, frame \in Frames : MessageEvent(sid, frame)
  \/ \E sid \in SessionIds : SocketCloses(sid)
  \/ \E sid \in SessionIds : CloseEvent(sid)
  \/ Reaper
  \/ \E req \in BroadcastRequests : Broadcast(req[1], req[2], req[3])

NoRestartSpec == Init /\ [][NoRestartNext]_vars

\* the requests that may come between two Reaper cycles: joins and leaves, a
\* broadcast to a room and a global one
ReaperFrames == {Frame(ROOM_JOIN, r) : r \in JoinRoomIds} \cup {Frame(ROOM_LEAVE, JStr("1"))}
ReaperRequests ==
  {<<"POST", Envelope(CHAT_MESSAGE, ChatPayload(JNum(1))), {}>>,
   <<"POST", Envelope(NOTIFICATION_CLEARED, ClearedPayload), {}>>}

ReaperNext ==
  \/ UpgradeAccepted("valid")
  \/ \E sid \in SessionIds, frame \in ReaperFrames : MessageEvent(sid, frame)
  \/ \E sid \in SessionIds : SocketCloses(sid)
  \/ \E sid \in SessionIds : CloseEvent(sid)
  \/ Reaper
  \/ \E req \in ReaperRequests : Broadcast(req[1], req[2], req[3])

\* one life of the durable object, in which the interval timer of the
\* constructor keeps firing: a Reaper cycle that has something to do is run
ReaperSpec == Init /\ [][ReaperNext]_vars /\ WF_vars(Reaper)

\* a Reaper cycle during which the snapshot write of session sid's cleanup rejects
ReaperFails(sid) ==
  /\ sid \in DOMAIN activeConnections
  /\ ~WebSocketOPEN(sid)
  /\ Commit(CleanupLoopFailing(Coordinator, InsertionOrder(DOMAIN activeConnections),
                                {sid}))
  /\ last' = [Request("reaper", 0, "", <<>>, NoResponse) EXCEPT !.throws = {sid}]
  /\ UNCHANGED <<sockets, nextId, everJoined, aside>>

\* one life of the object, and Reaper cycles during which a snapshot write rejects
StorageFaultNext ==
  \/ ReaperNext
  \/ \E sid \in SessionIds : ReaperFails(sid)

StorageFaultSpec == Init /\ [][StorageFaultNext]_vars

\* the same handlers, and broadcasts during which a socket.send throws
FaultNext ==
  \/ Next
  \/ \E req \in ThrowingRequests : Broadcast(req[1], req[2], req[3])

FaultSpec == Init /\ [][FaultNext]_vars

(* ------------------ handlers taken await by await ---------------------- *)
(* handleBroadcast waits at `await this.handleSessionClose(sessionId)` in   *)
(* the middle of its loop over roomSessions.  AwaitSpec takes the handlers  *)
(* as the promises socket.ts writes: the part of a handler up to an await   *)
(* that waits for storage is one step, and the events that arrive while it  *)
(* waits are handled before it goes on.  socket.ts itself has no lock or    *)
(* queue that would keep them out.                                          *)

MaxBroadcasts == 2

\* what an iterator over a Set has left to visit once the Set changed from old
\* to new: a deleted id is skipped, an added id (also one deleted and added
\* again) is appended and visited last
Revisit(todo, old, new) ==
  SelectSeq(new, LAMBDA x : x \in Range(todo) \/ x \notin Range(old))

\* a broadcast's loop: its room key, what its iterator has left, whether the Set
\* it walks is still the room's entry, whether the loop has ended
Task(roomKey, todo, live, done, status) ==
  [room |-> roomKey, todo |-> todo, live |-> live, done |-> done, status |-> status]

\* the loop over roomSessions from where it stands to its next await that waits:
\* handleSessionClose's saveState, or the saveState after the loop
RECURSIVE RoomLoopUntilAwait(_, _, _, _)
RoomLoopUntilAwait(c, roomKey, todo, sent) ==
  IF todo = <<>>
    THEN [c |-> saveState(c), todo |-> <<>>, sent |-> sent, done |-> TRUE]
  ELSE IF Head(todo) \notin DOMAIN c.activeConnections
    THEN RoomLoopUntilAwait(LazyDelete(c, roomKey, Head(todo)), roomKey, Tail(todo), sent)
  ELSE IF WebSocketOPEN(Head(todo))
    THEN RoomLoopUntilAwait(c, roomKey, Tail(todo), Append(sent, Head(todo)))
  ELSE [c |-> handleSessionClose(c, Head(todo)), todo |-> Tail(todo), sent |-> sent,
        done |-> FALSE]

\* the iterator of a waiting loop after a step took the coordinator from old to new
Retarget(t, old, new) ==
  IF t.done \/ ~t.live THEN t
  ELSE IF t.room \notin DOMAIN new.roomParticipants
    THEN [t EXCEPT !.live = FALSE, !.todo = <<>>]
  ELSE [t EXCEPT !.todo = Revisit(@, old.roomParticipants[t.room],
                                  new.roomParticipants[t.room])]

Retargeted(old, new) == [b \in DOMAIN tasks |-> Retarget(tasks[b], old, new)]

\* socket.send of broadcast b on the sockets of sent
Deliver(sent, b) ==
  [sid \in DOMAIN inbox |->
     IF sid \in Range(sent) THEN Append(inbox[sid], b) ELSE inbox[sid]]

\* the chat:message broadcasts of two rooms
AwaitEnvelopes == {Envelope(CHAT_MESSAGE, ChatPayload(r)) : r \in {JNum(1), JStr("0")}}

\* fetch -> handleSession with a token decode accepts
Connects ==
  /\ nextId <= MaxSessions
  /\ LET c == initialize(Coordinator)
         new == [c EXCEPT !.activeConnections = MapSet(@, nextId, [rooms |-> {}])]
     IN Commit(new) /\ tasks' = Retargeted(Coordinator, new)
  /\ sockets' = MapSet(sockets, nextId, "OPEN")
  /\ inbox' = MapSet(inbox, nextId, <<>>)
  /\ nextId' = nextId + 1
  /\ UNCHANGED <<everJoined, last, verified, loading, client>>

\* the message listener; its only await is the saveState that ends it
FrameHandled(sid, frame) ==
  /\ sid \in DOMAIN sockets
  /\ sockets[sid] # "CLOSED"
  /\ LET new == handleMessage(Coordinator, sid, frame)
     IN Commit(new) /\ tasks' = Retargeted(Coordinator, new)
  /\ UNCHANGED <<sockets, nextId, everJoined, last, inbox, verified, loading, client>>

\* the connection goes away
SocketGoes(sid) ==
  /\ sid \in DOMAIN sockets
  /\ sockets[sid] = "OPEN"
  /\ sockets' = [sockets EXCEPT ![sid] = "CLOSING"]
  /\ UNCHANGED <<activeConnections, roomParticipants, storage, initialized, nextId,
                 everJoined, removed, last, tasks, inbox, verified, loading, client>>

\* the close listener; its only await is the saveState that ends it
CloseHandled(sid) ==
  /\ sid \in DOMAIN sockets
  /\ sockets[sid] = "CLOSING"
  /\ sockets' = [sockets EXCEPT ![sid] = "CLOSED"]
  /\ LET new == handleSessionClose(Coordinator, sid)
     IN Commit(new) /\ tasks' = Retargeted(Coordinator, new)
  /\ UNCHANGED <<nextId, everJoined, last, inbox, verified, loading, client>>

\* handleBroadcast from its entry to the first await of its loop that waits
BroadcastStarts(raw) ==
  LET c == initialize(Coordinator)
      validated == BroadcastMessageSchema(raw)
      roomId == RoomIdOf(validated.data.payload)
      roomKey == String(roomId)
      b == Len(tasks) + 1
  IN /\ Len(tasks) < MaxBroadcasts
     /\ validated.success
     /\ ~IsGlobal(validated.data.type.str)
     /\ ~MissingRoomId(roomId)
     /\ IF RoomNotFound(c, roomKey)
        THEN /\ Commit(c)
             /\ tasks' = Append(Retargeted(Coordinator, c),
                                Task(roomKey, <<>>, FALSE, TRUE, 404))
             /\ UNCHANGED inbox
        ELSE LET run == RoomLoopUntilAwait(c, roomKey, c.roomParticipants[roomKey], <<>>)
                 t == Task(roomKey, run.todo, TRUE, run.done,
                           IF run.done THEN 200 ELSE 0)
             IN /\ Commit(run.c)
                /\ tasks' = Append(Retargeted(Coordinator, run.c), Retarget(t, c, run.c))
                /\ inbox' = Deliver(run.sent, b)
     /\ UNCHANGED <<sockets, nextId, everJoined, last, verified, loading, client>>

\* the loop of broadcast b goes on after the await it waited at
BroadcastResumes(b) ==
  /\ b \in DOMAIN tasks
  /\ ~tasks[b].done
  /\ LET t == tasks[b]
         run == RoomLoopUntilAwait(Coordinator, t.room, t.todo, <<>>)
         u == Task(t.room, run.todo, t.live, run.done, IF run.done THEN 200 ELSE 0)
     IN /\ Commit(run.c)
        /\ tasks' = [Retargeted(Coordinator, run.c) EXCEPT
                       ![b] = Retarget(u, Coordinator, run.c)]
        /\ inbox' = Deliver(run.sent, b)
  /\ UNCHANGED <<sockets, nextId, everJoined, last, verified, loading, client>>

AwaitNext ==
  \/ Connects
  \/ \E sid \in SessionIds, frame \in Frames : FrameHandled(sid, frame)
  \/ \E sid \in SessionIds : SocketGoes(sid)
  \/ \E sid \in SessionIds : CloseHandled(sid)
  \/ \E raw \in AwaitEnvelopes : BroadcastStarts(raw)
  \/ \E b \in 1..MaxBroadcasts : BroadcastResumes(b)

AwaitSpec == Init /\ [][AwaitNext]_vars

\* the places of session sid's inbox, earlier before later
Earlier(sid) == {p \in (DOMAIN inbox[sid]) \X (DOMAIN inbox[sid]) : p[1] < p[2]}

MaxLoads == 2

\* a handler waiting in initialize: its request and what storage.get reads
Load(request, storedRooms) == [request |-> request, storedRooms |-> storedRooms]

\* the requests that call initialize: a connection with a token decode accepts,
\* and a POST /broadcast
LoadRequests ==
  {[op |-> "connect", raw |-> <<>>]}
    \cup {[op |-> "broadcast", raw |-> req[2]] : req \in ReaperRequests}

\* initialize after its await: the forEach over the stored rooms, then the flag
ApplySnapshot(c, storedRooms) ==
  [c EXCEPT
     !.roomParticipants =
        [r \in DOMAIN c.roomParticipants \cup DOMAIN storedRooms |->
           IF r \in DOMAIN storedRooms THEN storedRooms[r] ELSE c.roomParticipants[r]],
     !.initialized = TRUE]

\* the connections that wait in initialize
LoadingConnections ==
  {i \in DOMAIN loading.pending : loading.pending[i].request.op = "connect"}

\* fetch -> handleSession or handleBroadcast, from the entry to the await of an
\* initialize that found this.initialized false
LoadStarts(request) ==
  /\ ~initialized
  /\ Len(loading.pending) < MaxLoads
  /\ request.op = "connect" => nextId + Cardinality(LoadingConnections) <= MaxSessions
  /\ loading' = [loading EXCEPT !.pending = Append(@, Load(request, storage))]
  /\ UNCHANGED <<activeConnections, roomParticipants, storage, initialized, sockets,
                 nextId, everJoined, removed, last, tasks, inbox, verified, client>>

\* the i-th waiting handler goes on: initialize applies what it read, then the
\* handler runs to its end
LoadResolves(i) ==
  /\ i \in DOMAIN loading.pending
  /\ loading' = [pending |-> SubSeq(loading.pending, 1, i - 1)
                                \o SubSeq(loading.pending, i + 1, Len(loading.pending)),
                  applied |-> loading.applied + 1]
  /\ LET request == loading.pending[i].request
         c == ApplySnapshot(Coordinator, loading.pending[i].storedRooms)
         res == handleBroadcast(c, "POST", request.raw, {})
     IN IF request.op = "connect"
        THEN /\ Commit([c EXCEPT !.activeConnections = MapSet(@, nextId, [rooms |-> {}])])
             /\ sockets' = MapSet(sockets, nextId, "OPEN")
             /\ nextId' = nextId + 1
             /\ last' = Request("connect", nextId, "valid", <<>>,
                                [NoResponse EXCEPT !.status = 101])
        ELSE /\ Commit(res.c)
             /\ last' = Request("broadcast", 0, "POST", request.raw, res)
             /\ UNCHANGED <<sockets, nextId>>
  /\ UNCHANGED <<everJoined, tasks, inbox, verified, client>>

\* the durable object is evicted and constructed again: only storage survives,
\* the handlers that waited are gone with the instance
Evicted ==
  /\ activeConnections' = <<>>
  /\ roomParticipants' = <<>>
  /\ initialized' = FALSE
  /\ sockets' = <<>>
  /\ loading' = NoLoads
  /\ last' = Request("restart", 0, "", <<>>, NoResponse)
  /\ UNCHANGED <<storage, nextId, everJoined, removed, tasks, inbox, verified, client>>

LoadNext ==
  \/ \E request \in LoadRequests : LoadStarts(request)
  \/ \E i \in 1..MaxLoads : LoadResolves(i)
  \/ initialized /\ UpgradeAccepted("valid")
  \/ \E sid \in SessionIds, frame \in ReaperFrames : MessageEvent(sid, frame)
  \/ \E sid \in SessionIds : SocketCloses(sid)
  \/ \E sid \in SessionIds : CloseEvent(sid)
  \/ \E req \in ReaperRequests : initialized /\ Broadcast(req[1], req[2], req[3])
  \/ Evicted

LoadSpec == Init /\ [][LoadNext]_vars

(* ----------------------- decode on its own ----------------------------- *)

Times == 0..MaxTime

TokenPayloads ==
  {[name |-> JStr("n")], [sub |-> Subject], [sub |-> Subject, exp |-> JStr("1")]}
    \cup {[sub |-> Subject, exp |-> JNum(e)] : e \in Times}

DecodeTokens ==
  {NoToken}
    \cup {Token(n, alg, p, signed) :
            n \in {2, 3}, alg \in {"HS256", "none"}, p \in TokenPayloads,
            signed \in BOOLEAN}

Pending == [ok |-> FALSE, error |-> "pending"]

\* a token and a time of day, decode not yet applied
DecodeInit ==
  /\ activeConnections = <<>>
  /\ roomParticipants = <<>>
  /\ storage = <<>>
  /\ initialized = FALSE
  /\ sockets = <<>>
  /\ nextId = 1
  /\ everJoined = {}
  /\ removed = {}
  /\ last = Request("none", 0, "", <<>>, NoResponse)
  /\ tasks = <<>>
  /\ inbox = <<>>
  /\ loading = NoLoads
  /\ manager = WebSocketManager
  /\ browser = NoSockets
  /\ calls = NoCalls
  /\ verified \in {[token |-> token, now |-> now, result |-> Pending] :
                      token \in DecodeTokens, now \in Times \ {0}}

\* decode is applied
Decodes ==
  /\ verified.result = Pending
  /\ verified' = [verified EXCEPT !.result = decode(verified.token, verified.now)]
  /\ UNCHANGED <<activeConnections, roomParticipants, storage, initialized, sockets,
                 nextId, everJoined, removed, last, tasks, inbox, loading, client>>

DecodeSpec == DecodeInit /\ [][Decodes]_vars

\* C18: decode fails with 'Token has expired' for every well-formed, correctly
\* signed token whose exp is earlier than the current time, whatever
\* non-negative integer exp is.
C18_ExpiredTokenFails ==
  (/\ verified.result # Pending
   /\ verified.token \in {Token(3, "HS256", [sub |-> Subject, exp |-> JNum(e)], TRUE) :
                             e \in Times}
   /\ verified.token.payload.exp.num < verified.now) =>
    verified.result = Thrown("Token has expired")

(* ------------------- the client's WebSocketManager --------------------- *)
(* The WebSocketManager of src/lib/websocket/types.ts and the WebSocket     *)
(* objects it constructs.  A socket keeps the handlers setupSocketHandlers  *)
(* gave it for as long as it lives, also after this.socket points to        *)
(* another socket or to null.  ClientSpec has the public methods called in  *)
(* any order and the sockets opened and closed by the network.              *)

\* WebSocket objects constructed, user messages submitted
MaxSockets == 3
MaxMessages == 2

\* config.reconnectAttempts of the constructor
DefaultReconnectAttempts == 5

ClientRooms == {"0", "1"}

\* { type, payload: { roomId } } of joinRoom, leaveRoom and rejoinRooms
RoomMessage(type, roomId) == [type |-> type, payload |-> [roomId |-> JStr(roomId)]]

\* the n-th message given to sendMessage by the application
UserMessage(n) == [type |-> "typing:start", payload |-> [seq |-> JNum(n)]]

\* JSON.stringify(message), as the frame the other end parses
JSONstringify(message) ==
  [json |-> TRUE, type |-> message.type, payload |-> message.payload]

\* a method or handler under way: the manager's fields, the readyState of the
\* sockets, the frames sent so far, whether an exception has left it
Run(m, readyStates) ==
  [manager |-> m, sockets |-> readyStates, sent |-> <<>>, threw |-> FALSE]

\* this.socket?.send(data): null is skipped, a CONNECTING socket throws
\* InvalidStateError, an OPEN socket takes the frame, a CLOSING or CLOSED socket
\* discards it
SocketSend(run, data) ==
  IF run.manager.socket = 0 THEN run
  ELSE IF run.sockets[run.manager.socket] = "CONNECTING"
    THEN [run EXCEPT !.threw = TRUE]
  ELSE IF run.sockets[run.manager.socket] = "OPEN"
    THEN [run EXCEPT !.sent = Append(@, data)]
  ELSE run

sendMessage(run, message) ==
  IF run.manager.state # "connected"
    THEN [run EXCEPT !.manager.messageQueue = Append(@, message)]
  ELSE SocketSend(run, JSONstringify(message))

\* the while loop over messageQueue, entered with state 'connected'
RECURSIVE processMessageQueue(_)
processMessageQueue(run) ==
  IF run.threw \/ run.manager.messageQueue = <<>> THEN run
  ELSE processMessageQueue(
         sendMessage([run EXCEPT !.manager.messageQueue = Tail(@)],
                     Head(run.manager.messageQueue)))

\* this.rooms.forEach: a room:join for every RoomSubscription of this.rooms
RECURSIVE RejoinLoop(_, _)
RejoinLoop(run, todo) ==
  IF run.threw \/ todo = <<>> THEN run
  ELSE RejoinLoop(sendMessage(run, RoomMessage(ROOM_JOIN, Head(todo).roomId)), Tail(todo))

rejoinRooms(run) == RejoinLoop(run, run.manager.rooms)

\* socket.onopen; an exception of processMessageQueue leaves the handler
onopen(m, readyStates) ==
  rejoinRooms(processMessageQueue(
    Run([m EXCEPT !.state = "connected", !.reconnectAttempts = 0], readyStates)))

joinRoom(m, roomId) ==
  IF roomId \in m.activeRooms THEN Run(m, browser.sockets)
  ELSE LET added == Run([m EXCEPT !.activeRooms = @ \cup {roomId}], browser.sockets)
       IN IF m.state = "connected"
          THEN sendMessage(added, RoomMessage(ROOM_JOIN, roomId))
          ELSE added

leaveRoom(m, roomId) ==
  LET deleted == Run([m EXCEPT !.rooms = SelectSeq(@, LAMBDA sub : sub.roomId # roomId)],
                     browser.sockets)
  IN IF m.state = "connected"
     THEN sendMessage(deleted, RoomMessage(ROOM_LEAVE, roomId))
     ELSE deleted

\* connect() returns at once when this.socket is OPEN
AlreadyOpen(m) == m.socket # 0 /\ browser.sockets[m.socket] = "OPEN"

\* connect(): a new WebSocket with the handlers of setupSocketHandlers
connect(m) ==
  IF AlreadyOpen(m) THEN m
  ELSE [m EXCEPT !.socket = Len(browser.sockets) + 1, !.state = "connecting"]

Constructed(m) ==
  IF AlreadyOpen(m) THEN browser.sockets ELSE Append(browser.sockets, "CONNECTING")

\* socket.close() on the sockets of disconnect()
Closed(m) ==
  [k \in DOMAIN browser.sockets |->
     IF k = m.socket /\ browser.sockets[k] \in {"CONNECTING", "OPEN"}
     THEN "CLOSING" ELSE browser.sockets[k]]

disconnect(m) == [m EXCEPT !.socket = 0, !.state = "disconnected"]

\* handleReconnect: a setTimeout unless the attempts are used up
Scheduled(m) == IF m.reconnectAttempts >= DefaultReconnectAttempts THEN 0 ELSE 1

\* what the coordinator's side of the model holds
server == <<activeConnections, roomParticipants, storage, initialized, sockets,
            nextId, everJoined, removed, last, tasks, inbox, verified, loading>>

\* the history of a call or event: what it was, whether state was 'connected'
\* when it began, the frames it sent
Called(op, roomId, sent) ==
  [calls EXCEPT !.op = op, !.room = roomId, !.connected = manager.state = "connected",
                !.rejoin = FALSE, !.sent = sent]

JoinRoomCalled(roomId) ==
  LET run == joinRoom(manager, roomId)
  IN /\ manager' = run.manager
     /\ calls' = [Called("joinRoom", roomId, run.sent) EXCEPT
                    !.rejoin = roomId \in calls.left,
                    !.joined = @ \cup {roomId},
                    !.left = @ \ {roomId}]
     /\ UNCHANGED <<browser, server>>

LeaveRoomCalled(roomId) ==
  LET run == leaveRoom(manager, roomId)
  IN /\ manager' = run.manager
     /\ calls' = [Called("leaveRoom", roomId, run.sent) EXCEPT
                    !.joined = @ \ {roomId},
                    !.left = @ \cup {roomId}]
     /\ UNCHANGED <<browser, server>>

\* the application gives its next message to sendMessage
SendMessageCalled ==
  LET n == calls.submitted + 1
      run == sendMessage(Run(manager, browser.sockets), UserMessage(n))
  IN /\ n <= MaxMessages
     /\ manager' = run.manager
     /\ calls' = [Called("sendMessage", "", run.sent) EXCEPT
                    !.submitted = n,
                    !.pending = IF manager.state # "connected" THEN Append(@, n) ELSE @]
     /\ UNCHANGED <<browser, server>>

ConnectCalled ==
  /\ AlreadyOpen(manager) \/ Len(browser.sockets) < MaxSockets
  /\ manager' = connect(manager)
  /\ browser' = [browser EXCEPT !.sockets = Constructed(manager)]
  /\ calls' = [Called("connect", "", <<>>) EXCEPT !.disconnected = FALSE, !.attempts = 0]
  /\ UNCHANGED server

DisconnectCalled ==
  /\ manager' = disconnect(manager)
  /\ browser' = [browser EXCEPT !.sockets = Closed(manager)]
  /\ calls' = [Called("disconnect", "", <<>>) EXCEPT !.disconnected = TRUE, !.attempts = 0]
  /\ UNCHANGED server

\* the handshake of socket k succeeds: readyState OPEN, the open event
SocketOpens(k) ==
  /\ k \in DOMAIN browser.sockets
  /\ browser.sockets[k] = "CONNECTING"
  /\ LET readyStates == [browser.sockets EXCEPT ![k] = "OPEN"]
         run == onopen(manager, readyStates)
     IN /\ manager' = run.manager
        /\ browser' = [browser EXCEPT !.sockets = readyStates]
        /\ calls' = [Called("open", "", run.sent) EXCEPT
                       !.due = calls.pending, !.pending = <<>>]
  /\ UNCHANGED server

\* the connection of socket k fails or is closed by the other end
ConnectionLost(k) ==
  /\ k \in DOMAIN browser.sockets
  /\ browser.sockets[k] \in {"CONNECTING", "OPEN"}
  /\ browser' = [browser EXCEPT !.sockets[k] = "CLOSING"]
  /\ calls' = Called("lost", "", <<>>)
  /\ UNCHANGED <<manager, server>>

\* the close event of socket k: socket.onclose, then handleReconnect
SocketClosed(k) ==
  /\ k \in DOMAIN browser.sockets
  /\ browser.sockets[k] = "CLOSING"
  /\ manager' = [manager EXCEPT !.state = "disconnected"]
  /\ browser' = [browser EXCEPT !.sockets[k] = "CLOSED",
                                !.timers = @ + Scheduled(manager)]
  /\ calls' = Called("close", "", <<>>)
  /\ UNCHANGED server

\* the callback of handleReconnect's setTimeout
ReconnectTimer ==
  LET counted == [manager EXCEPT !.reconnectAttempts = @ + 1]
  IN /\ browser.timers > 0
     /\ AlreadyOpen(counted) \/ Len(browser.sockets) < MaxSockets
     /\ manager' = connect(counted)
     /\ browser' = [sockets |-> Constructed(counted), timers |-> browser.timers - 1]
     /\ calls' = [Called("timer", "", <<>>) EXCEPT
                    !.attempts = IF AlreadyOpen(counted) THEN @ ELSE @ + 1]
     /\ UNCHANGED server

ClientNext ==
  \/ \E roomId \in ClientRooms : JoinRoomCalled(roomId)
  \/ \E roomId \in ClientRooms : LeaveRoomCalled(roomId)
  \/ SendMessageCalled
  \/ ConnectCalled
  \/ DisconnectCalled
  \/ \E k \in 1..MaxSockets : SocketOpens(k)
  \/ \E k \in 1..MaxSockets : ConnectionLost(k)
  \/ \E k \in 1..MaxSockets : SocketClosed(k)
  \/ ReconnectTimer

ClientSpec == Init /\ [][ClientNext]_vars

(* ------------------------ reading the history -------------------------- *)

IsBroadcast == last.op = "broadcast" /\ last.method = "POST"

\* the coordinator as the handler of the last request found it, snapshot loaded
Seen == initialize(last.pre)

TagOf(raw) == IF Has(raw, "type") THEN raw.type.str ELSE ""
HasGlobalTag(raw) == TagOf(raw) \in {NOTIFICATION_DELETED, NOTIFICATION_CLEARED}

\* the payloads that have one of the four shapes of the schema
KnownShapes ==
  {ChatPayload(r) : r \in BroadcastRoomIds}
    \cup {CreatedPayload, DeletedPayload, ClearedPayload}

\* the roomId values the handler does not take for a missing roomId
TakenRoomIds == BroadcastRoomIds \ {JNum(0), JStr("")}

\* the last request was a chat:message broadcast the handler routed to a room
RoutedToRoom ==
  /\ IsBroadcast
  /\ last.raw \in {Envelope(CHAT_MESSAGE, ChatPayload(r)) : r \in TakenRoomIds}

\* the last request was a broadcast with a global tag and a payload of a known shape
GlobalRequest ==
  /\ IsBroadcast
  /\ HasGlobalTag(last.raw)
  /\ last.raw.payload \in KnownShapes

TargetRoom == String(last.raw.payload.roomId)
TargetEntry == Seen.roomParticipants[TargetRoom]

Open(sid) == sid \in DOMAIN sockets /\ sockets[sid] = "OPEN"
Registered(sid) == sid \in DOMAIN Seen.activeConnections
OpenMembers == {sid \in Range(TargetEntry) : Registered(sid) /\ Open(sid)}
OpenSessions == {sid \in DOMAIN Seen.activeConnections : Open(sid)}

Member(sid, roomKey) ==
  roomKey \in DOMAIN roomParticipants /\ sid \in Range(roomParticipants[roomKey])

SentOnceTo(S) == Range(last.sent) = S /\ Len(last.sent) = Cardinality(S)

(* ------------------------------ claims --------------------------------- *)

\* C1: a broadcast routed to a room that has a Membership Index entry answers 200
\* with recipients equal to the number of sessions of the entry whose connection
\* is open, sends to exactly those sessions, and leaves no other id of the entry
\* in the Registry or in the room's set.
C1_RecipientsAreOpenMembers ==
  (RoutedToRoom /\ TargetRoom \in DOMAIN Seen.roomParticipants) =>
    /\ last.status = 200
    /\ last.recipients = Cardinality(OpenMembers)
    /\ SentOnceTo(OpenMembers)
    /\ \A sid \in Range(TargetEntry) \ OpenMembers :
         sid \notin DOMAIN activeConnections /\ ~Member(sid, TargetRoom)

\* two registered members, one open and one not: one recipient, the other removed
C1_Witness ==
  /\ RoutedToRoom
  /\ TargetRoom \in DOMAIN Seen.roomParticipants
  /\ last.recipients = 1
  /\ \E sid \in Range(TargetEntry) : Registered(sid) /\ ~Open(sid)

\* C2: a broadcast routed to room R is sent only to sessions that are in the
\* Registry and have R in their rooms set; an id that only the reloaded snapshot
\* knows is never sent to.
C2_OnlyRegisteredMembersReceive ==
  (IsBroadcast /\ ~HasGlobalTag(last.raw)) =>
    \A sid \in Range(last.sent) :
      /\ Has(last.raw.payload, "roomId")
      /\ sid \in DOMAIN last.pre.activeConnections
      /\ TargetRoom \in last.pre.activeConnections[sid].rooms

\* the room's entry holds an id that only the reloaded snapshot knows and a
\* registered member, and the envelope is sent
C2_Witness ==
  /\ RoutedToRoom
  /\ last.sent # <<>>
  /\ \E sid \in Range(TargetEntry) : ~Registered(sid)

\* C3: a broadcast with a global tag and a valid payload answers 200, is sent once to every
\* session of the Registry whose connection is open, whatever its rooms, and
\* recipients is the number of sessions sent to; its payload needs no roomId.
C3_GlobalReachesEveryOpenSession ==
  GlobalRequest =>
    /\ last.status = 200
    /\ SentOnceTo(OpenSessions)
    /\ last.recipients = Len(last.sent)

\* two open sessions, one in a room and one in none, a payload without roomId
C3_Witness ==
  /\ IsBroadcast
  /\ last.raw = Envelope(NOTIFICATION_CLEARED, ClearedPayload)
  /\ last.recipients = 2
  /\ \E a, b \in DOMAIN activeConnections :
       activeConnections[a].rooms = {} /\ activeConnections[b].rooms # {}

\* the Registry and the snapshot are as before the request, the Membership Index
\* is the one the handler found
Unchanged ==
  /\ activeConnections = last.pre.activeConnections
  /\ roomParticipants = Seen.roomParticipants
  /\ storage = last.pre.storage

OpenIn(roomKey) ==
  {sid \in DOMAIN Seen.activeConnections :
     Open(sid) /\ roomKey \in Seen.activeConnections[sid].rooms}

\* C4: a notification:created broadcast is handled as a global event: it answers
\* 200 and is sent to every open session of the Registry, and is not rejected for
\* lacking a roomId.
C4_CreatedIsGlobal ==
  (IsBroadcast /\ last.raw = Envelope(NOTIFICATION_CREATED, CreatedPayload)) =>
    /\ last.status = 200
    /\ SentOnceTo(OpenSessions)

\* C5: an envelope whose type is not a known tag is answered with an error and is
\* sent to no session, whatever its payload.
C5_UnknownTagRejected ==
  (IsBroadcast /\ Has(last.raw, "type") /\ TagOf(last.raw) \notin KnownTags) =>
    /\ last.status >= 400
    /\ last.sent = <<>>

\* C6: a broadcast whose payload matches no known shape is answered with 400, is
\* sent to no session and changes neither Registry, Membership Index nor snapshot.
C6_InvalidEnvelopeIs400 ==
  (IsBroadcast /\ last.raw.payload \notin KnownShapes) =>
    /\ last.status = 400
    /\ last.sent = <<>>
    /\ Unchanged

\* C7: every envelope of a listed wire shape passes validation (it is not answered
\* with the 500 of a failed parse); a notifications:read {chatId: c} is sent to the
\* open sessions joined to room String(c).
C7_WireShapesPassValidation ==
  (IsBroadcast /\ last.raw \in WireEnvelopes) =>
    /\ last.status # 500
    /\ last.raw = Envelope(NOTIFICATIONS_READ, ReadPayload) =>
         SentOnceTo(OpenIn(String(ReadPayload.chatId)))

\* C8: a room-scoped broadcast is answered with 400 (MissingRoomId) exactly when
\* its payload carries no roomId field, and then nothing is sent and nothing changes.
C8_MissingRoomIdIffAbsent ==
  (IsBroadcast /\ TagOf(last.raw) = CHAT_MESSAGE /\ last.raw.payload \in KnownShapes) =>
    /\ last.status = 400 <=> ~Has(last.raw.payload, "roomId")
    /\ last.status = 400 => (last.sent = <<>> /\ Unchanged)

\* C9: a broadcast routed to a room answers 404 (RoomNotFound) if and only if the
\* Membership Index has no entry for the room; an entry without members gives 200
\* with recipients 0; on 404 nothing is sent and nothing changes.
C9_RoomNotFoundIffNoEntry ==
  /\ RoutedToRoom => (last.status = 404 <=> TargetRoom \notin DOMAIN Seen.roomParticipants)
  /\ (RoutedToRoom /\ TargetRoom \in DOMAIN Seen.roomParticipants /\ TargetEntry = <<>>) =>
       (last.status = 200 /\ last.recipients = 0)
  /\ (IsBroadcast /\ last.status = 404) =>
       (~HasGlobalTag(last.raw) /\ last.sent = <<>> /\ Unchanged)

\* a 404 while other rooms have entries and a session is registered and open
C9_Witness ==
  /\ RoutedToRoom
  /\ last.status = 404
  /\ roomParticipants # <<>>
  /\ \E sid \in DOMAIN activeConnections : Open(sid)

\* C10 as stated: after sessions joined a room and every session has gone offline,
\* a broadcast routed to that room answers 200 with recipients 0.
C10_OfflineRoomIsSuccess ==
  (RoutedToRoom /\ TargetRoom \in everJoined
     /\ \A sid \in DOMAIN sockets : sockets[sid] # "OPEN") =>
    (last.status = 200 /\ last.recipients = 0)

\* C10 amended: a broadcast routed to a room none of whose registered members is
\* open answers 200 with recipients 0 while the room's entry exists, and 404 when
\* it does not; and a request that removes from the Registry every id of a room's
\* set deletes the room's entry.
C10_OfflineRoomByEntry ==
  /\ (RoutedToRoom /\ OpenIn(TargetRoom) = {}) =>
       IF TargetRoom \in DOMAIN Seen.roomParticipants
       THEN last.status = 200 /\ last.recipients = 0
       ELSE last.status = 404
  /\ \A r \in DOMAIN Seen.roomParticipants :
       (/\ Seen.roomParticipants[r] # <<>>
        /\ Range(Seen.roomParticipants[r]) \subseteq
              DOMAIN Seen.activeConnections \ DOMAIN activeConnections)
         => r \notin DOMAIN roomParticipants

\* the room was joined, its sessions were closed and cleaned up, the answer is 404
C10_Witness ==
  /\ RoutedToRoom
  /\ TargetRoom \in everJoined
  /\ initialized
  /\ last.pre.initialized
  /\ last.status = 404

\* the sessions the last broadcast has to reach: the open members of its room, or
\* every open session for a global tag
Targets ==
  IF HasGlobalTag(last.raw) THEN OpenSessions
  ELSE IF TargetRoom \in DOMAIN Seen.roomParticipants THEN OpenMembers
  ELSE {}

\* C13: when the send to one target session throws during a broadcast, the
\* envelope is still sent to every other open target session and the broadcast
\* answers 200 with recipients equal to the number of sessions it was sent to.
C13_SendFailureIsolated ==
  (IsBroadcast /\ last.throws # {} /\ last.throws \subseteq Targets) =>
    /\ Targets \ last.throws \subseteq Range(last.sent)
    /\ last.status = 200
    /\ last.recipients = Len(last.sent)

\* the rooms of index whose set holds sid
RoomsHolding(index, sid) == {r \in DOMAIN index : sid \in Range(index[r])}

\* every session but sid has the rooms set and the room memberships it has in c
OthersKeep(c, sid) ==
  /\ DOMAIN activeConnections = DOMAIN c.activeConnections \ {sid}
  /\ \A t \in DOMAIN activeConnections :
       /\ activeConnections[t] = c.activeConnections[t]
       /\ RoomsHolding(roomParticipants, t) = RoomsHolding(c.roomParticipants, t)

\* C14: after handleSessionClose of a registered session S, whatever rooms it had
\* joined, S is in no room's membership set and not in the Registry, and every
\* other session has the rooms and memberships it had before.
C14_DisconnectRemovesOnlyS ==
  (last.op = "close" /\ last.sid \in DOMAIN last.pre.activeConnections) =>
    /\ RoomsHolding(roomParticipants, last.sid) = {}
    /\ last.sid \notin DOMAIN activeConnections
    /\ OthersKeep(last.pre, last.sid)

\* a session joined to two rooms is closed; another session shares one of them
C14_Witness ==
  /\ last.op = "close"
  /\ last.sid \in DOMAIN last.pre.activeConnections
  /\ Cardinality(last.pre.activeConnections[last.sid].rooms) = 2
  /\ \E t \in DOMAIN activeConnections : RoomsHolding(roomParticipants, t) # {}

\* the Registry, the Membership Index and the snapshot are as before the request
Untouched ==
  /\ activeConnections = last.pre.activeConnections
  /\ roomParticipants = last.pre.roomParticipants
  /\ storage = last.pre.storage

\* C15: the cleanup of a session takes effect once: a close event for a session
\* that a broadcast, the Reaper or an earlier close has already removed changes
\* nothing, and a removed session is in neither the Registry nor any room set
\* ever after, also after a frame of it has been handled.
C15_CleanupOnce ==
  /\ (last.op = "close" /\ last.sid \notin DOMAIN last.pre.activeConnections) => Untouched
  /\ (last.op = "message" /\ last.sid \in removed) => Untouched
  /\ \A sid \in removed :
       sid \notin DOMAIN activeConnections /\ RoomsHolding(roomParticipants, sid) = {}

\* the close event of a session that had joined a room and was removed before
\* (by a broadcast or the Reaper), while another session is still registered
C15_Witness ==
  /\ last.op = "close"
  /\ last.sid \in removed
  /\ last.sid \notin DOMAIN last.pre.activeConnections
  /\ everJoined # {}
  /\ activeConnections # <<>>

\* c has the Registry and the Membership Index of the current state
SameState(c) ==
  c.activeConnections = activeConnections /\ c.roomParticipants = roomParticipants

\* C16: after handleRoomJoin(S, R), handleRoomJoin(S, R) once more leaves the
\* Registry and the Membership Index as they are; after handleRoomLeave(S, R),
\* also of a room S never joined, handleRoomLeave(S, R) once more leaves them as
\* they are.
C16_JoinLeaveIdempotent ==
  /\ (last.op = "message" /\ Joins(last.pre, last.sid, last.raw)) =>
       SameState(handleRoomJoin(Coordinator, last.sid, last.raw.payload.roomId))
  /\ (last.op = "message" /\ Leaves(last.pre, last.sid, last.raw)) =>
       SameState(handleRoomLeave(Coordinator, last.sid, last.raw.payload.roomId))

\* a session joins a room that another session is in
C16_Witness ==
  /\ last.op = "message"
  /\ Joins(last.pre, last.sid, last.raw)
  /\ Len(roomParticipants[String(last.raw.payload.roomId)]) = 2

\* the tokens an upgrade must not accept
BadTokens == {"missing", "malformed", "forged", "expired"}

\* C17: an upgrade whose token is missing, malformed, wrongly signed or expired
\* is answered with 401 and not with 101, registers no session and leaves the
\* Membership Index as it was.
C17_BadTokenUnauthorized ==
  (last.op = "connect" /\ last.method \in BadTokens) =>
    /\ last.status = 401
    /\ activeConnections = last.pre.activeConnections
    /\ roomParticipants = last.pre.roomParticipants

\* a frame that is not JSON, or whose type is neither room:join nor room:leave
BadFrame(frame) == ~frame.json \/ frame.type \notin {ROOM_JOIN, ROOM_LEAVE}

\* session sid is in the room of roomId once c has handled its room:join frame
JoinsAfter(c, sid, roomId) ==
  LET after == handleMessage(c, sid, Frame(ROOM_JOIN, roomId))
  IN /\ String(roomId) \in after.activeConnections[sid].rooms
     /\ sid \in Range(after.roomParticipants[String(roomId)])

\* C19: a frame that is not valid JSON or has an unknown type leaves the
\* Registry, the Membership Index and the snapshot as they were and the
\* connection in the state it was in, and a room:join frame of the same session
\* handled next is processed.
C19_BadFrameIgnored ==
  (last.op = "message" /\ BadFrame(last.raw)) =>
    /\ Untouched
    /\ sockets[last.sid] = last.readyState
    /\ last.sid \in DOMAIN activeConnections =>
         \A roomId \in JoinRoomIds : JoinsAfter(Coordinator, last.sid, roomId)

\* a frame that is not JSON from an open session that is joined to a room
C19_Witness ==
  /\ last.op = "message"
  /\ last.raw = NotJson
  /\ last.sid \in DOMAIN activeConnections
  /\ activeConnections[last.sid].rooms # {}
  /\ sockets[last.sid] = "OPEN"
  /\ storage # <<>>

\* C20: as long as the coordinator is not restarted, after any connects, joins,
\* leaves, disconnects, broadcasts and Reaper cycles, an id s is in room R's set
\* if and only if s is a session of the Registry whose rooms set contains R.
C20_IndexMatchesRegistry ==
  \A roomKey \in DOMAIN roomParticipants \cup everJoined : \A sid \in 1..(nextId - 1) :
    Member(sid, roomKey) <=>
      (sid \in DOMAIN activeConnections /\ roomKey \in activeConnections[sid].rooms)

\* after a Reaper cycle: a session has been removed, a room's set is empty and
\* its entry is kept, and a registered session is joined to a room
C20_Witness ==
  /\ last.op = "reaper"
  /\ removed # {}
  /\ \E roomKey \in DOMAIN roomParticipants : roomParticipants[roomKey] = <<>>
  /\ \E sid \in DOMAIN activeConnections : activeConnections[sid].rooms # {}

\* the last request was one of the operations that take members out of rooms
Removes ==
  \/ last.op = "message" /\ Leaves(last.pre, last.sid, last.raw)
  \/ last.op = "close"
  \/ last.op = "reaper"
  \/ IsBroadcast

\* C21: after a leave, a session close, a broadcast (its lazy removal of unknown
\* ids included) or a Reaper cycle, the Membership Index has no room entry whose
\* set is empty.
C21_NoEmptyRoomEntry ==
  Removes => \A roomKey \in DOMAIN roomParticipants : roomParticipants[roomKey] # <<>>

\* the ids that room sets of c hold and its Registry does not, with their rooms
Stale(c) ==
  {p \in (DOMAIN c.roomParticipants) \X (1..MaxSessions) :
     p[2] \in Range(c.roomParticipants[p[1]]) /\ p[2] \notin DOMAIN c.activeConnections}

\* C22: an id that a room's set holds and the Registry does not is out of that
\* set once the next broadcast or the next Reaper cycle has been handled.
C22_StaleIdsRemovedNext ==
  /\ last.op = "reaper" => \A p \in Stale(last.pre) : ~Member(p[2], p[1])
  /\ IsBroadcast => \A p \in Stale(Seen) : ~Member(p[2], p[1])

\* session sid is registered and its connection is not open
Dead(sid) == sid \in DOMAIN activeConnections /\ sockets[sid] # "OPEN"

\* session sid is in neither the Registry nor any room's set
Gone(sid) == sid \notin DOMAIN activeConnections /\ RoomsHolding(roomParticipants, sid) = {}

\* C23: with the Reaper run again and again, every registered session whose
\* connection is no longer open is eventually out of the Registry and of every
\* room's set, whether or not a broadcast or its close event is ever handled.
C23_ReaperRemovesDead == \A sid \in SessionIds : Dead(sid) ~> Gone(sid)

\* a Reaper cycle has removed a session that was joined to a room and whose close
\* event has not been handled
C23_Witness ==
  /\ last.op = "reaper"
  /\ \E sid \in DOMAIN last.pre.activeConnections :
       /\ last.pre.activeConnections[sid].rooms # {}
       /\ sockets[sid] = "CLOSING"
       /\ Gone(sid)

\* C24: in a Reaper cycle during which the cleanup of one dead session fails,
\* every other registered session whose connection is not open is still removed
\* from the Registry in that cycle.
C24_ReaperFailureIsolated ==
  (last.op = "reaper" /\ last.throws # {}) =>
    \A sid \in DOMAIN last.pre.activeConnections \ last.throws :
      sockets[sid] # "OPEN" => sid \notin DOMAIN activeConnections

\* C25: once this instance has loaded the snapshot, and with no handler under
\* way, the persisted 'rooms' record holds the rooms of the Membership Index with
\* the same session ids in each.
C25_SnapshotEqualsIndex ==
  initialized =>
    /\ DOMAIN storage = DOMAIN roomParticipants
    /\ \A roomKey \in DOMAIN storage :
         Range(storage[roomKey]) = Range(roomParticipants[roomKey])

JoinFrame(roomId) == JSONstringify(RoomMessage(ROOM_JOIN, roomId))

\* C27: when a socket of the WebSocketManager opens, the open handler sends a
\* room:join frame for every room joinRoom was called for and leaveRoom was not
\* called for since.
C27_RejoinsOnOpen ==
  calls.op = "open" => \A roomId \in calls.joined : JoinFrame(roomId) \in Range(calls.sent)

\* C28: a joinRoom(R) called on a connected WebSocketManager after a leaveRoom(R)
\* sends a room:join frame for R.
C28_JoinAfterLeaveSends ==
  (calls.op = "joinRoom" /\ calls.connected /\ calls.rejoin)
    => JoinFrame(calls.room) \in Range(calls.sent)

\* C29: from a call of disconnect() until the next call of connect() the
\* WebSocketManager constructs no WebSocket.
C29_NoReconnectAfterDisconnect ==
  calls.disconnected => calls.attempts = 0

\* the frames of the application's messages among those sent, in order
UserFrames(sent) == SelectSeq(sent, LAMBDA frame : frame.type = "typing:start")

\* C30: when a socket opens, the open handler sends the messages that were given
\* to sendMessage while the manager was not connected and have not been sent
\* yet, each once and in the order they were given.
C30_QueueFlushedInOrder ==
  calls.op = "open" =>
    UserFrames(calls.sent) = [i \in DOMAIN calls.due |-> JSONstringify(UserMessage(calls.due[i]))]

====
